---- MODULE Spec2Model ----
(***************************************************************************)
(* The reorder_fields assist of ra_assists                                 *)
(* (crates/ra_assists/src/handlers/reorder_fields.rs).                     *)
(*                                                                         *)
(* A document is one construct (a record literal or a record pattern)      *)
(* behind a one-character prefix; a literal may hold a record pattern      *)
(* nested in the value expression of one of its fields.  Text is real      *)
(* text: ranges are byte offsets, an edit script is a set of               *)
(* (start, end, new text) replacements, and applying a script rewrites     *)
(* the text, which is then read back into a tree.                          *)
(***************************************************************************)
EXTENDS Integers, Sequences, FiniteSets

VARIABLES doc, cursor, pc, litResult, result, round, prev, prevResult

vars == <<doc, cursor, pc, litResult, result, round, prev, prevResult>>

(***************************************************************************)
(* Bounds of the model.                                                    *)
(***************************************************************************)
MaxFields == 3
MaxNestedFields == 2
MaxRounds == 2

(* usize::max_value(): the rank of a key that is not a declared name.  It  *)
(* exceeds every declaration index; the largest integer of the checker     *)
(* stands for it.                                                          *)
usize_max_value == 2147483647

(***************************************************************************)
(* Syntax elements.                                                        *)
(***************************************************************************)
TokenKinds == {"L_CURLY", "R_CURLY", "COMMA", "DOTDOT", "COMMENT", "WHITESPACE",
               "COLON", "REF_KW", "MUT_KW", "EQ"}

ExprKinds == {"PATH_EXPR", "LITERAL", "MATCH_EXPR", "METHOD_CALL_EXPR"}

IsNode(e) == e.kind \notin TokenKinds

E(k, t) == [kind |-> k, text |-> t, nested |-> FALSE]

Tok(k, t) == [kind |-> k, elems |-> <<E(k, t)>>]

NoRes == [kind |-> "none", fields |-> <<>>]

NoPath == [present |-> FALSE, text |-> "", res |-> NoRes]

NoConstruct == [kind |-> "NONE", path |-> NoPath, items |-> <<>>]

(***************************************************************************)
(* Text and ranges.                                                        *)
(***************************************************************************)
RECURSIVE ItemsText(_, _)
RECURSIVE ElemsText(_, _)

ConstructText(c, inner) ==
    (IF c.path.present THEN c.path.text ELSE "") \o ItemsText(c.items, inner)

ElemText(e, inner) ==
    IF e.nested THEN e.text \o ConstructText(inner, NoConstruct) ELSE e.text

ElemsText(es, inner) ==
    IF es = <<>> THEN "" ELSE ElemText(Head(es), inner) \o ElemsText(Tail(es), inner)

ItemText(it, inner) == ElemsText(it.elems, inner)

ItemsText(its, inner) ==
    IF its = <<>> THEN "" ELSE ItemText(Head(its), inner) \o ItemsText(Tail(its), inner)

Prefix == "="

TopStart == Len(Prefix)

DocText(d) == Prefix \o ConstructText(d.top, d.pat)

(* Offset of item i of construct c that starts at base.                    *)
ItemStart(c, inner, base, i) ==
    base + Len(IF c.path.present THEN c.path.text ELSE "")
         + Len(ItemsText(SubSeq(c.items, 1, i - 1), inner))

ItemEnd(c, inner, base, i) == ItemStart(c, inner, base, i) + Len(ItemText(c.items[i], inner))

ElemStart(it, inner, itemStart, j) ==
    itemStart + Len(ElemsText(SubSeq(it.elems, 1, j - 1), inner))

(***************************************************************************)
(* get_fields_kind, get_fields, get_field_name.                            *)
(***************************************************************************)
get_fields_kind(node) ==
    CASE node.kind = "RECORD_LIT" -> {"RECORD_FIELD"}
      [] node.kind = "RECORD_PAT" -> {"RECORD_FIELD_PAT", "BIND_PAT"}
      [] OTHER -> {}

(* record.children(): the path (when there is one) and the field list,     *)
(* each with its own child nodes; tokens are not children.                 *)
RecordChildren(record) ==
    (IF record.path.present
        THEN <<[kind |-> "PATH", kids |-> <<[kind |-> "PATH_SEGMENT", idx |-> 0]>>]>>
        ELSE <<>>)
    \o <<[kind |-> "FIELD_LIST",
          kids |-> LET idxs == SelectSeq([i \in 1..Len(record.items) |-> i],
                                         LAMBDA i : IsNode(record.items[i]))
                   IN [k \in 1..Len(idxs) |->
                          [kind |-> record.items[idxs[k]].kind, idx |-> idxs[k]]]]>>

RECURSIVE FlatMapKids(_)
FlatMapKids(nodes) ==
    IF nodes = <<>> THEN <<>> ELSE Head(nodes).kids \o FlatMapKids(Tail(nodes))

(* The field nodes of a record, as the positions of their items.           *)
get_fields(record) ==
    LET kinds == get_fields_kind(record)
        kept  == SelectSeq(FlatMapKids(RecordChildren(record)),
                           LAMBDA n : n.kind \in kinds)
    IN [k \in 1..Len(kept) |-> kept[k].idx]

FindMap(es, kinds) ==
    LET hits == SelectSeq(es, LAMBDA e : IsNode(e) /\ e.kind \in kinds)
    IN IF hits = <<>> THEN [some |-> FALSE, node |-> E("NONE", "")]
                      ELSE [some |-> TRUE, node |-> Head(hits)]

(* Mutant of get_field_name: no fallback to the value expression.          *)
get_field_name_no_shorthand(node, inner) ==
    CASE node.kind = "RECORD_FIELD" ->
            LET name == FindMap(node.elems, {"NAME_REF"})
            IN IF name.some THEN ElemText(name.node, inner) ELSE ""
      [] node.kind \in {"BIND_PAT", "RECORD_FIELD_PAT"} ->
            LET n == FindMap(node.elems, {"NAME"})
            IN IF n.some THEN ElemText(n.node, inner) ELSE ""
      [] OTHER -> ""

get_field_name(node, inner) ==
    CASE node.kind = "RECORD_FIELD" ->
            LET name == FindMap(node.elems, {"NAME_REF"})
                expr == FindMap(node.elems, ExprKinds)
            IN IF name.some THEN ElemText(name.node, inner)
               ELSE IF expr.some THEN ElemText(expr.node, inner) ELSE ""
      [] node.kind \in {"BIND_PAT", "RECORD_FIELD_PAT"} ->
            LET n == FindMap(node.elems, {"NAME"})
            IN IF n.some THEN ElemText(n.node, inner) ELSE ""
      [] OTHER -> ""

(***************************************************************************)
(* struct_definition, compute_fields_ranks.                                *)
(***************************************************************************)
struct_definition(path) ==
    IF path.res.kind = "struct" THEN [some |-> TRUE, fields |-> path.res.fields]
                                ELSE [some |-> FALSE, fields |-> <<>>]

(* The HashMap from field name to declaration index (0-based); a name      *)
(* declared twice keeps the later index, as collect() into a map does.     *)
compute_fields_ranks(path) ==
    LET s == struct_definition(path)
    IN IF ~s.some THEN [some |-> FALSE, map |-> <<>>]
       ELSE [some |-> TRUE,
             map |-> [n \in {s.fields[i] : i \in 1..Len(s.fields)} |->
                        (CHOOSE i \in 1..Len(s.fields) :
                            /\ s.fields[i] = n
                            /\ \A j \in 1..Len(s.fields) : s.fields[j] = n => j <= i) - 1]]

(* The closure of reorder: ranks.get(&get_field_name(node))                *)
(* .unwrap_or(&usize::max_value()).                                        *)
(* Mutant of get_rank: an unknown key gets rank 0.                         *)
get_rank_zero_default(ranks, node, inner) ==
    LET key == get_field_name(node, inner)
    IN IF key \in DOMAIN ranks THEN ranks[key] ELSE 0

get_rank(ranks, node, inner) ==
    LET key == get_field_name(node, inner)
    IN IF key \in DOMAIN ranks THEN ranks[key] ELSE usize_max_value

(***************************************************************************)
(* sorted_by_rank: itertools' sorted_by_key, a stable sort.                *)
(***************************************************************************)
RECURSIVE InsertByRank(_, _, _)
InsertByRank(x, s, rank) ==
    IF s = <<>> THEN <<x>>
    ELSE IF rank[x] < rank[s[Len(s)]]
         THEN Append(InsertByRank(x, SubSeq(s, 1, Len(s) - 1), rank), s[Len(s)])
         ELSE Append(s, x)

RECURSIVE SortByRank(_, _)
SortByRank(fields, rank) ==
    IF fields = <<>> THEN <<>>
    ELSE InsertByRank(fields[Len(fields)],
                      SortByRank(SubSeq(fields, 1, Len(fields) - 1), rank), rank)

(* Mutants of sorted_by_rank: a descending sort, a sort that keeps one     *)
(* field per rank, and a sort that reverses the fields of equal rank.      *)
Reversed(s) == [i \in 1..Len(s) |-> s[Len(s) + 1 - i]]

sorted_by_rank_descending(fields, rank) == Reversed(SortByRank(Reversed(fields), rank))

sorted_by_rank_dedup(fields, rank) ==
    LET s == SortByRank(fields, rank)
    IN SelectSeq(s, LAMBDA x : \A k \in 1..Len(s) :
                                  (rank[s[k]] = rank[x] /\ s[k] # x) => x < s[k])

sorted_by_rank_unstable(fields, rank) == Reversed(sorted_by_rank_descending(fields, rank))

sorted_by_rank(fields, rank) == SortByRank(fields, rank)

(***************************************************************************)
(* find_node_at_offset: the innermost node of the wanted kind whose range  *)
(* holds the offset (an offset on a node's edge touches the node).         *)
(***************************************************************************)
NotFound == [some |-> FALSE, c |-> NoConstruct, inner |-> NoConstruct, base |-> 0,
             where |-> "none"]

HasNested(d) == d.pat.kind # "NONE"

(* The item and the element of the top construct that hold the nested      *)
(* pattern.                                                                *)
NestedItem(d) ==
    CHOOSE i \in 1..Len(d.top.items) :
        \E j \in 1..Len(d.top.items[i].elems) : d.top.items[i].elems[j].nested

NestedElem(d) ==
    CHOOSE j \in 1..Len(d.top.items[NestedItem(d)].elems) :
        d.top.items[NestedItem(d)].elems[j].nested

NestedStart(d) ==
    ElemStart(d.top.items[NestedItem(d)], d.pat,
              ItemStart(d.top, d.pat, TopStart, NestedItem(d)), NestedElem(d))
    + Len(d.top.items[NestedItem(d)].elems[NestedElem(d)].text)

TopEnd(d) == TopStart + Len(ConstructText(d.top, d.pat))

NestedEnd(d) == NestedStart(d) + Len(ConstructText(d.pat, NoConstruct))

find_node_at_offset(d, off, kind) ==
    IF /\ HasNested(d) /\ d.pat.kind = kind
       /\ NestedStart(d) <= off /\ off <= NestedEnd(d)
    THEN [some |-> TRUE, c |-> d.pat, inner |-> NoConstruct, base |-> NestedStart(d),
          where |-> "nested"]
    ELSE IF d.top.kind = kind /\ TopStart <= off /\ off <= TopEnd(d)
    THEN [some |-> TRUE, c |-> d.top, inner |-> d.pat, base |-> TopStart,
          where |-> "top"]
    ELSE NotFound

(***************************************************************************)
(* algo::diff and TreeDiff::into_text_edit: the replacements that turn the *)
(* text of node `from`, which starts at offset `start`, into the text of   *)
(* node `to`.  Equal nodes give nothing; nodes with as many elements are   *)
(* compared element by element; otherwise the whole node is replaced.      *)
(***************************************************************************)
SameElement(a, b, inner) ==
    /\ a.kind = b.kind
    /\ Len(ElemText(a, inner)) = Len(ElemText(b, inner))
    /\ ElemText(a, inner) = ElemText(b, inner)

diff(from, to, start, inner) ==
    IF /\ from.kind = to.kind
       /\ Len(ItemText(from, inner)) = Len(ItemText(to, inner))
       /\ ItemText(from, inner) = ItemText(to, inner)
    THEN {}
    ELSE IF Len(from.elems) = Len(to.elems)
    THEN {[start |-> ElemStart(from, inner, start, j),
           end   |-> ElemStart(from, inner, start, j) + Len(ElemText(from.elems[j], inner)),
           text  |-> ElemText(to.elems[j], inner)] :
             j \in {k \in 1..Len(from.elems) :
                        ~SameElement(from.elems[k], to.elems[k], inner)}}
    ELSE {[start |-> start,
           end   |-> start + Len(ItemText(from, inner)),
           text  |-> ItemText(to, inner)]}

(***************************************************************************)
(* reorder and reorder_fields.                                             *)
(***************************************************************************)
None == [some |-> FALSE, replacements |-> {}, target |-> [start |-> 0, end |-> 0],
         kind |-> "NONE"]

(* Mutant of ZipFields: the last slot is left out.                         *)
ZipFields_skip_last(fields, sorted) ==
    {<<fields[i], sorted[i]>> : i \in 1..(Len(fields) - 1)}

(* The pairs (old, new) of `fields.iter().zip(&sorted_fields)`.            *)
ZipFields(fields, sorted) ==
    {<<fields[i], sorted[i]>> : i \in 1..(IF Len(fields) < Len(sorted)
                                            THEN Len(fields) ELSE Len(sorted))}

(* Mutant of TargetRange: the range of the field list, without the path.   *)
TargetRange_of_field_list(rec) ==
    [start |-> rec.base + Len(rec.c.path.text),
     end |-> rec.base + Len(ConstructText(rec.c, rec.inner))]

(* edit.target(record.syntax().text_range())                               *)
TargetRange(rec) ==
    [start |-> rec.base, end |-> rec.base + Len(ConstructText(rec.c, rec.inner))]

(* The closure handed to add_assist: one diff per slot, and the target.    *)
BuildEdit(rec, fields, sorted) ==
    [some |-> TRUE,
     replacements |->
        UNION {diff(rec.c.items[p[1]], rec.c.items[p[2]],
                    ItemStart(rec.c, rec.inner, rec.base, p[1]), rec.inner) :
                 p \in ZipFields(fields, sorted)},
     target |-> TargetRange(rec),
     kind |-> rec.c.kind]

RankOfFields(rec, ranks, fields) ==
    [i \in {fields[k] : k \in 1..Len(fields)} |->
        get_rank(ranks, rec.c.items[i], rec.inner)]

(* Mutant of reorder: no check that sorting changed the order.             *)
reorder_without_noop_check(d, off, kind) ==
    LET rec == find_node_at_offset(d, off, kind)
    IN IF ~rec.some THEN None
       ELSE IF ~rec.c.path.present THEN None
       ELSE LET ranks == compute_fields_ranks(rec.c.path)
            IN IF ~ranks.some THEN None
               ELSE LET fields == get_fields(rec.c)
                        sorted == sorted_by_rank(fields,
                                                 RankOfFields(rec, ranks.map, fields))
                    IN BuildEdit(rec, fields, sorted)

reorder(d, off, kind) ==
    LET rec == find_node_at_offset(d, off, kind)
    IN IF ~rec.some THEN None
       ELSE IF ~rec.c.path.present THEN None
       ELSE LET ranks == compute_fields_ranks(rec.c.path)
            IN IF ~ranks.some THEN None
               ELSE LET fields == get_fields(rec.c)
                        sorted == sorted_by_rank(fields,
                                                 RankOfFields(rec, ranks.map, fields))
                    IN IF sorted = fields THEN None
                       ELSE BuildEdit(rec, fields, sorted)

reorder_fields(d, off) ==
    LET lit == reorder(d, off, "RECORD_LIT")
    IN IF lit.some THEN lit ELSE reorder(d, off, "RECORD_PAT")

(***************************************************************************)
(* The caller: applying a text edit and reading the text back.             *)
(***************************************************************************)
RECURSIVE ApplyText(_, _)
ApplyText(text, reps) ==
    IF reps = {} THEN text
    ELSE LET r == CHOOSE x \in reps : \A y \in reps : y.start <= x.start
         IN ApplyText(SubSeq(text, 1, r.start) \o r.text
                        \o SubSeq(text, r.end + 1, Len(text)),
                      reps \ {r})

FieldKinds == {"RECORD_FIELD", "RECORD_FIELD_PAT", "BIND_PAT"}

FieldSlots(c) == {i \in 1..Len(c.items) : c.items[i].kind \in FieldKinds}

(* The constructs with the tokens of c and, in each field slot, one of the *)
(* field nodes of c.                                                       *)
Refilled(c) ==
    {[c EXCEPT !.items = [i \in 1..Len(c.items) |->
                            IF i \in FieldSlots(c) THEN f[i] ELSE c.items[i]]] :
       f \in [FieldSlots(c) -> {c.items[i] : i \in FieldSlots(c)}]}

HoldsNested(c) ==
    \E i \in 1..Len(c.items) : \E j \in 1..Len(c.items[i].elems) :
        c.items[i].elems[j].nested

Unparsed == [top |-> NoConstruct, pat |-> NoConstruct]

(* The tree of `text`, a rewriting of document d.                          *)
Parse(text, d) ==
    LET cands == {[top |-> t, pat |-> d.pat] : t \in Refilled(d.top)}
                 \cup {[top |-> d.top, pat |-> p] : p \in Refilled(d.pat)}
        ok == {x \in cands : /\ DocText(x) = text
                             /\ HasNested(x) => HoldsNested(x.top)}
    IN IF ok = {} THEN Unparsed ELSE CHOOSE x \in ok : TRUE

ApplyEdit(d, r) == Parse(ApplyText(DocText(d), r.replacements), d)

(***************************************************************************)
(* The documents the assist is run on.                                     *)
(***************************************************************************)
Field(k, es) == [kind |-> k, elems |-> es]

(* Record literal fields: `foo:1`, `bar:0`, the shorthand `foo`,           *)
(* `bar:foo` (a declared name as the value), `extra:9` (no such declared   *)
(* field) and `#[a]`, a field that has neither a name nor a value.         *)
LitFoo == Field("RECORD_FIELD", <<E("NAME_REF", "foo"), E("COLON", ":"), E("LITERAL", "1")>>)
LitBar == Field("RECORD_FIELD", <<E("NAME_REF", "bar"), E("COLON", ":"), E("LITERAL", "0")>>)
LitShorthandFoo == Field("RECORD_FIELD", <<E("PATH_EXPR", "foo")>>)
LitBarOfFoo == Field("RECORD_FIELD",
                     <<E("NAME_REF", "bar"), E("COLON", ":"), E("PATH_EXPR", "foo")>>)
LitExtra == Field("RECORD_FIELD", <<E("NAME_REF", "extra"), E("COLON", ":"), E("LITERAL", "9")>>)
LitNoKey == Field("RECORD_FIELD", <<E("ATTR", "#[a]")>>)

(* `baz:m<pattern>=>0`: a field whose value holds the nested pattern.      *)
LitNest == Field("RECORD_FIELD",
                 <<E("NAME_REF", "baz"), E("COLON", ":"),
                   [kind |-> "MATCH_EXPR", text |-> "m", nested |-> TRUE]>>)

LitPool == {LitFoo, LitBar, LitShorthandFoo, LitBarOfFoo, LitExtra, LitNoKey}

LitPoolOfNesting == {LitFoo, LitBar}

(* Record pattern fields: `baz:0`, `ref mut bar`, `foo`, `extra`.          *)
PatBaz == Field("RECORD_FIELD_PAT",
                <<E("NAME", "baz"), E("COLON", ":"), E("LITERAL_PAT", "0")>>)
PatRefMutBar == Field("BIND_PAT",
                      <<E("REF_KW", "ref"), E("WHITESPACE", " "), E("MUT_KW", "mut"),
                        E("WHITESPACE", " "), E("NAME", "bar")>>)
PatFoo == Field("BIND_PAT", <<E("NAME", "foo")>>)
PatExtra == Field("BIND_PAT", <<E("NAME", "extra")>>)

PatPool == {PatBaz, PatRefMutBar, PatFoo, PatExtra}

PatPoolNested == {PatRefMutBar, PatFoo}

Seqs(S, n) == UNION {[1..k -> S] : k \in 0..n}

RECURSIVE WithCommas(_)
WithCommas(fs) ==
    IF fs = <<>> THEN <<>> ELSE <<Head(fs), Tok("COMMA", ",")>> \o WithCommas(Tail(fs))

(* `{` field `,` field `,` [`/*c*/`] [`..`] `}`                            *)
Items(fs, comment, rest) ==
    <<Tok("L_CURLY", "{")>> \o WithCommas(fs)
    \o (IF comment THEN <<Tok("COMMENT", "/*c*/")>> ELSE <<>>)
    \o (IF rest THEN <<Tok("DOTDOT", "..")>> ELSE <<>>)
    \o <<Tok("R_CURLY", "}")>>

StructRes(fs) == [kind |-> "struct", fields |-> fs]

Decls == {<<>>, <<"foo", "bar">>, <<"foo", "bar", "baz">>}

FullDecl == <<"foo", "bar", "baz">>

Resolved(name, res) == [present |-> TRUE, text |-> name, res |-> res]

Construct(k, path, items) == [kind |-> k, path |-> path, items |-> items]

(* The field sequences of the literals, with or (the shorter ones) without *)
(* a comment after the fields.                                             *)
LitLayouts ==
    {l \in Seqs(LitPool, MaxFields) \X BOOLEAN : l[2] => Len(l[1]) < MaxFields}

(* Literals and patterns whose path resolves to a struct.                  *)
StructDocs ==
    {[top |-> Construct("RECORD_LIT", Resolved("Foo", StructRes(dl)),
                        Items(l[1], l[2], FALSE)),
      pat |-> NoConstruct] : l \in LitLayouts, dl \in Decls}
    \cup
    {[top |-> Construct("RECORD_PAT", Resolved("Foo", StructRes(dl)),
                        Items(fs, FALSE, rest)),
      pat |-> NoConstruct] :
        fs \in Seqs(PatPool, MaxFields), dl \in Decls, rest \in BOOLEAN}

(* Constructs whose path is missing or resolves to something else.         *)
OtherPaths ==
    {NoPath} \cup {Resolved("Foo", [kind |-> k, fields |-> <<>>]) :
                     k \in {"enum_variant", "function", "none"}}

UnresolvedDocs ==
    {[top |-> Construct("RECORD_LIT", path, Items(<<LitBar, LitFoo>>, TRUE, FALSE)),
      pat |-> NoConstruct] : path \in OtherPaths}
    \cup
    {[top |-> Construct("RECORD_PAT", path, Items(<<PatBaz, PatRefMutBar>>, FALSE, TRUE)),
      pat |-> NoConstruct] : path \in OtherPaths}

(* Literals with a pattern nested in the value of one field.               *)
NestingSeqs ==
    {fs \in Seqs(LitPoolOfNesting \cup {LitNest}, MaxNestedFields) :
        Cardinality({i \in 1..Len(fs) : fs[i] = LitNest}) = 1}

NestedDocs ==
    {[top |-> Construct("RECORD_LIT", Resolved("Foo", StructRes(FullDecl)),
                        Items(fs, FALSE, FALSE)),
      pat |-> Construct("RECORD_PAT", Resolved("P", StructRes(FullDecl)),
                        Items(ps, FALSE, TRUE))] :
        fs \in NestingSeqs, ps \in Seqs(PatPoolNested, MaxNestedFields)}

Docs == StructDocs \cup UnresolvedDocs \cup NestedDocs

(* The offsets tried: every offset of a document with a nested pattern,    *)
(* and the two ends and the prefix of any other.                           *)
Cursors(d) ==
    IF HasNested(d) THEN 0..Len(DocText(d)) ELSE {0, TopStart, Len(DocText(d))}

(***************************************************************************)
(* The state machine: an invocation tries the literal, then the pattern;   *)
(* the caller may apply the edit it got and invoke the assist again.       *)
(***************************************************************************)
Init ==
    /\ doc \in Docs
    /\ cursor \in Cursors(doc)
    /\ pc = "idle"
    /\ litResult = None
    /\ result = None
    /\ round = 0
    /\ prev = doc
    /\ prevResult = None

(* Mutant of ReorderLit: the pattern is tried before the literal.          *)
ReorderLit_after_pat ==
    /\ pc = "idle"
    /\ round < MaxRounds
    /\ LET p == reorder(doc, cursor, "RECORD_PAT")
       IN /\ litResult' = IF p.some THEN None ELSE reorder(doc, cursor, "RECORD_LIT")
          /\ result' = IF p.some THEN p ELSE litResult'
          /\ pc' = IF result'.some THEN "done" ELSE "tryPat"
    /\ UNCHANGED <<doc, cursor, round, prev, prevResult>>

(* reorder::<RecordLit>(ctx.clone())                                       *)
ReorderLit ==
    /\ pc = "idle"
    /\ round < MaxRounds
    /\ litResult' = reorder(doc, cursor, "RECORD_LIT")
    /\ result' = litResult'
    /\ pc' = IF litResult'.some THEN "done" ELSE "tryPat"
    /\ UNCHANGED <<doc, cursor, round, prev, prevResult>>

(* .or_else(|| reorder::<RecordPat>(ctx))                                  *)
ReorderPat ==
    /\ pc = "tryPat"
    /\ result' = reorder(doc, cursor, "RECORD_PAT")
    /\ pc' = "done"
    /\ UNCHANGED <<doc, cursor, litResult, round, prev, prevResult>>

(* The caller commits the edit script to the document.                     *)
Apply ==
    /\ pc = "done"
    /\ result.some
    /\ doc' = ApplyEdit(doc, result)
    /\ prev' = doc
    /\ prevResult' = result
    /\ round' = round + 1
    /\ pc' = "idle"
    /\ UNCHANGED <<cursor, litResult, result>>

Next == ReorderLit \/ ReorderPat \/ Apply

Spec == Init /\ [][Next]_vars

(***************************************************************************)
(* Vocabulary of the properties.                                           *)
(***************************************************************************)
(* What the attempt on the construct of `kind` at the cursor works with:   *)
(* the record found, whether its path resolves to a struct, its fields in  *)
(* source order, their ranks and the planner's sorted sequence.            *)
Plan(d, kind) ==
    LET rec    == find_node_at_offset(d, cursor, kind)
        ranks  == compute_fields_ranks(rec.c.path)
        ok     == rec.some /\ rec.c.path.present /\ ranks.some
        fields == get_fields(rec.c)
        rank   == IF ok THEN RankOfFields(rec, ranks.map, fields) ELSE <<>>
    IN [rec |-> rec, ok |-> ok, fields |-> fields, rank |-> rank,
        sorted |-> IF ok THEN sorted_by_rank(fields, rank) ELSE <<>>]

(* The construct an applied edit was computed for, before and after.       *)
Before == find_node_at_offset(prev, cursor, prevResult.kind)

After == IF Before.where = "top" THEN doc.top ELSE doc.pat

AfterInner == IF Before.where = "top" THEN doc.pat ELSE NoConstruct

Applied == round > 0 /\ prevResult.some

(* The field slots of a construct, in source order.                        *)
SlotSeq(c) == SelectSeq([i \in 1..Len(c.items) |-> i], LAMBDA i : i \in FieldSlots(c))

Declared(c) == {c.path.res.fields[i] : i \in 1..Len(c.path.res.fields)}

(* The declaration index (0-based) of a declared name.                     *)
DeclIndex(c, name) == (CHOOSE i \in 1..Len(c.path.res.fields) : c.path.res.fields[i] = name) - 1

KeyAt(c, inner, i) == get_field_name(c.items[i], inner)

NonDecreasing(s) == \A i, j \in 1..Len(s) : i < j => s[i] <= s[j]

(* C1: after an edit for a construct whose path resolves to a struct is    *)
(* applied, the fields of the result whose key is a declared name appear   *)
(* in declaration order: their declaration indices never decrease along    *)
(* the field list.                                                         *)
C1_OrderInvariant ==
    Applied =>
        /\ After.kind = prevResult.kind
        /\ Len(SlotSeq(After)) = Len(SlotSeq(Before.c))
        /\ LET slots == SlotSeq(After)
               named == SelectSeq(slots, LAMBDA i : KeyAt(After, AfterInner, i) \in Declared(After))
           IN NonDecreasing([k \in 1..Len(named) |->
                                DeclIndex(After, KeyAt(After, AfterInner, named[k]))])

(* A literal with the keys bar, extra, foo was reordered and now starts    *)
(* with foo.                                                               *)
C1_Witness ==
    /\ Applied /\ round = 1 /\ pc = "idle"
    /\ After.kind = "RECORD_LIT"
    /\ LET b == Before.c
           s == SlotSeq(b)
       IN /\ Len(s) = 3
          /\ KeyAt(b, prev.pat, s[1]) = "bar"
          /\ KeyAt(b, prev.pat, s[2]) = "extra"
          /\ KeyAt(b, prev.pat, s[3]) = "foo"
          /\ KeyAt(After, AfterInner, SlotSeq(After)[1]) = "foo"

(* The fields of sequence s (positions of items of c) that satisfy P.      *)
RankClass(pl, s, r) == SelectSeq(s, LAMBDA i : pl.rank[i] = r)

PlanProperty(P(_)) ==
    \A kind \in {"RECORD_LIT", "RECORD_PAT"} :
        LET pl == Plan(doc, kind) IN pl.ok => P(pl)

(* C2: in the planner's result every field whose key is no declared name   *)
(* comes after every field whose key is one, and the fields of one rank    *)
(* (the unranked ones, or those that carry the same declared key) keep     *)
(* their source order.                                                     *)
C2_Stability ==
    PlanProperty(LAMBDA pl :
        /\ \A i, j \in 1..Len(pl.sorted) :
              (/\ KeyAt(pl.rec.c, pl.rec.inner, pl.sorted[i]) \notin Declared(pl.rec.c)
               /\ KeyAt(pl.rec.c, pl.rec.inner, pl.sorted[j]) \in Declared(pl.rec.c))
              => j < i
        /\ \A r \in {pl.rank[i] : i \in DOMAIN pl.rank} :
              RankClass(pl, pl.sorted, r) = RankClass(pl, pl.fields, r))

(* An edit was computed for a literal that has two undeclared keys, the    *)
(* first of them ahead of a declared one.                                  *)
C2_Witness ==
    /\ pc = "done" /\ result.some /\ result.kind = "RECORD_LIT"
    /\ LET pl == Plan(doc, "RECORD_LIT")
       IN /\ pl.ok /\ Len(pl.fields) = 3
          /\ KeyAt(pl.rec.c, pl.rec.inner, pl.fields[1]) = "extra"
          /\ KeyAt(pl.rec.c, pl.rec.inner, pl.fields[2]) = "foo"
          /\ KeyAt(pl.rec.c, pl.rec.inner, pl.fields[3]) = ""
          /\ pl.sorted = <<pl.fields[2], pl.fields[1], pl.fields[3]>>

(* C4: the sorted sequence is a rearrangement of the field sequence, of    *)
(* the same length and with each field node exactly once, so the edit      *)
(* pairs every slot with one field and every field with one slot.          *)
C4_Permutation ==
    PlanProperty(LAMBDA pl :
        /\ Len(pl.sorted) = Len(pl.fields)
        /\ \A i \in 1..Len(pl.fields) :
              Cardinality({k \in 1..Len(pl.sorted) : pl.sorted[k] = pl.fields[i]}) = 1
        /\ LET z == ZipFields(pl.fields, pl.sorted)
           IN /\ {p[1] : p \in z} = {pl.fields[i] : i \in 1..Len(pl.fields)}
              /\ {p[2] : p \in z} = {pl.fields[i] : i \in 1..Len(pl.fields)}
              /\ Cardinality(z) = Len(pl.fields))

(* An edit was computed for three fields, two of which carry the same key. *)
C4_Witness ==
    /\ pc = "done" /\ result.some
    /\ LET pl == Plan(doc, result.kind)
       IN /\ Len(pl.fields) = 3
          /\ pl.rank[pl.fields[1]] = pl.rank[pl.fields[2]]
          /\ pl.rank[pl.fields[3]] < pl.rank[pl.fields[1]]

(* The attempts of the invocation in progress: litResult is the literal    *)
(* attempt on doc once it was made, result the pattern attempt once the    *)
(* literal attempt gave nothing and the pattern attempt was made.          *)
LitAttempted == pc \in {"tryPat", "done"}

PatAttempted == pc = "done" /\ ~litResult.some

Attempted(kind) == IF kind = "RECORD_LIT" THEN LitAttempted ELSE PatAttempted

AttemptResult(kind) == IF kind = "RECORD_LIT" THEN litResult ELSE result

Kinds == {"RECORD_LIT", "RECORD_PAT"}

IsDeclaredKey(pl, i) == KeyAt(pl.rec.c, pl.rec.inner, i) \in Declared(pl.rec.c)

(* The fields with a declared key are in declaration order.                *)
DeclaredInOrder(pl) ==
    \A a, b \in 1..Len(pl.fields) :
        (a < b /\ IsDeclaredKey(pl, pl.fields[a]) /\ IsDeclaredKey(pl, pl.fields[b]))
        => DeclIndex(pl.rec.c, KeyAt(pl.rec.c, pl.rec.inner, pl.fields[a]))
             <= DeclIndex(pl.rec.c, KeyAt(pl.rec.c, pl.rec.inner, pl.fields[b]))

(* No field with an undeclared key precedes a field with a declared key.   *)
UndeclaredLast(pl) ==
    \A a, b \in 1..Len(pl.fields) :
        (a < b /\ IsDeclaredKey(pl, pl.fields[b])) => IsDeclaredKey(pl, pl.fields[a])

(* C3: once an edit was applied, the next invocation at the same cursor    *)
(* gives no edit.                                                          *)
C3_Idempotence == (round >= 1 /\ pc = "done") => ~result.some

(* C5 as stated: a construct whose declared-key fields are in declaration  *)
(* order gets no edit, wherever its undeclared-key fields are.             *)
C5_Original ==
    \A kind \in Kinds :
        LET pl == Plan(doc, kind)
        IN (Attempted(kind) /\ pl.ok /\ DeclaredInOrder(pl)) => ~AttemptResult(kind).some

(* C5, amended: a construct whose declared-key fields are in declaration   *)
(* order and whose undeclared-key fields all come after them gets no edit  *)
(* from the attempt on it.                                                 *)
C5_AlreadySorted ==
    \A kind \in Kinds :
        LET pl == Plan(doc, kind)
        IN (Attempted(kind) /\ pl.ok /\ DeclaredInOrder(pl) /\ UndeclaredLast(pl))
           => ~AttemptResult(kind).some

(* A literal `foo, extra, extra` against a declaration with foo in it was  *)
(* attempted and gave nothing.                                             *)
C5_Witness ==
    /\ pc = "done" /\ ~result.some
    /\ LET pl == Plan(doc, "RECORD_LIT")
       IN /\ pl.ok /\ Len(pl.fields) = 3
          /\ KeyAt(pl.rec.c, pl.rec.inner, pl.fields[1]) = "foo"
          /\ KeyAt(pl.rec.c, pl.rec.inner, pl.fields[2]) = "extra"
          /\ KeyAt(pl.rec.c, pl.rec.inner, pl.fields[3]) = "extra"
          /\ "foo" \in Declared(pl.rec.c)

(* The attempt on the construct of `kind` at the cursor has something to   *)
(* do: a construct is found, it has a path, the path resolves to a struct, *)
(* there are fields, and sorting changes their order.                      *)
Applicable(kind) ==
    LET rec == find_node_at_offset(doc, cursor, kind)
        pl  == Plan(doc, kind)
    IN /\ rec.some
       /\ rec.c.path.present
       /\ rec.c.path.res.kind = "struct"
       /\ SlotSeq(rec.c) # <<>>
       /\ pl.sorted # pl.fields

(* C6: each attempt gives an edit exactly when it is applicable; the       *)
(* invocation ends with an edit exactly when one of its attempts is, and   *)
(* an outcome without an edit carries no replacement, while an edit        *)
(* carries at least one.                                                   *)
C6_Outcome ==
    /\ \A kind \in Kinds :
          Attempted(kind) =>
              /\ AttemptResult(kind).some <=> Applicable(kind)
              /\ ~AttemptResult(kind).some => AttemptResult(kind).replacements = {}
    /\ pc = "done" =>
          /\ result.some \in BOOLEAN
          /\ result.some <=> (Applicable("RECORD_LIT") \/ Applicable("RECORD_PAT"))
          /\ ~result.some => result.replacements = {}
          /\ result.some => result.replacements # {}

(* An unsorted literal whose path resolves to an enum variant was          *)
(* attempted and the invocation ended without an edit.                     *)
C6_Witness ==
    /\ pc = "done" /\ ~result.some
    /\ LET rec == find_node_at_offset(doc, cursor, "RECORD_LIT")
       IN /\ rec.some
          /\ rec.c.path.present
          /\ rec.c.path.res.kind = "enum_variant"
          /\ Len(SlotSeq(rec.c)) = 2

(* C7: after an edit is applied, field slot k of the construct holds the   *)
(* k-th field of the planner's sorted sequence, every other element of the *)
(* construct (path, braces, separators, comments, the rest marker) is at   *)
(* its place with its content, the rest marker was not among the fields,   *)
(* and the other construct of the document is as it was.                   *)
C7_Frame ==
    Applied =>
        LET b  == Before.c
            pl == [rec |-> Before,
                   fields |-> get_fields(b),
                   rank |-> RankOfFields(Before, compute_fields_ranks(b.path).map,
                                         get_fields(b))]
            sorted == sorted_by_rank(pl.fields, pl.rank)
        IN /\ After.kind = b.kind
           /\ After.path = b.path
           /\ Len(After.items) = Len(b.items)
           /\ \A i \in 1..Len(b.items) :
                 i \notin FieldSlots(b) => After.items[i] = b.items[i]
           /\ Len(sorted) = Len(SlotSeq(b))
           /\ \A k \in 1..Len(SlotSeq(b)) :
                 After.items[SlotSeq(b)[k]] = b.items[sorted[k]]
           /\ \A k \in 1..Len(pl.fields) : b.items[pl.fields[k]].kind # "DOTDOT"
           /\ IF Before.where = "top" THEN doc.pat = prev.pat ELSE doc.top = prev.top

(* The pattern `baz:0, ref mut bar, ..` became `ref mut bar, baz:0, ..`.   *)
C7_Witness ==
    /\ Applied /\ round = 1
    /\ After.kind = "RECORD_PAT"
    /\ Len(After.items) = 7
    /\ After.items[2] = PatRefMutBar
    /\ After.items[4] = PatBaz
    /\ After.items[6].kind = "DOTDOT"
    /\ Before.c.items[2] = PatBaz

Overlap(r1, r2) == ~(r1.end <= r2.start \/ r2.end <= r1.start)

(* C8: the replacements of an edit do not overlap, each lies in the range  *)
(* of a field slot whose occupant changes, and the target is the range of  *)
(* the whole construct.                                                    *)
C8_Script ==
    (pc = "done" /\ result.some) =>
        LET pl  == Plan(doc, result.kind)
            rec == pl.rec
        IN /\ \A r1, r2 \in result.replacements : r1 # r2 => ~Overlap(r1, r2)
           /\ \A r \in result.replacements :
                 /\ r.start <= r.end
                 /\ \E k \in 1..Len(pl.fields) :
                       /\ pl.fields[k] # pl.sorted[k]
                       /\ ItemStart(rec.c, rec.inner, rec.base, pl.fields[k]) <= r.start
                       /\ r.end <= ItemEnd(rec.c, rec.inner, rec.base, pl.fields[k])
           /\ result.target =
                 IF rec.where = "top"
                    THEN [start |-> TopStart, end |-> TopEnd(doc)]
                    ELSE [start |-> NestedStart(doc), end |-> NestedEnd(doc)]

(* An edit for three fields of which the last stays in its slot.           *)
C8_Witness ==
    /\ pc = "done" /\ result.some
    /\ LET pl == Plan(doc, result.kind)
       IN /\ Len(pl.fields) = 3
          /\ pl.sorted = <<pl.fields[2], pl.fields[1], pl.fields[3]>>
          /\ Cardinality(result.replacements) >= 2

HasKind(it, ks) == \E j \in 1..Len(it.elems) : it.elems[j].kind \in ks

(* The text of the first element of `it` whose kind is in ks.              *)
FirstText(it, ks, inner) ==
    ElemText(it.elems[CHOOSE j \in 1..Len(it.elems) :
                         /\ it.elems[j].kind \in ks
                         /\ \A k \in 1..(j - 1) : it.elems[k].kind \notin ks], inner)

(* C9: a literal field's key is its name reference, or else the text of    *)
(* its value, or else empty; a pattern field's key is its bound name; a    *)
(* declared key ranks at its declaration index, whether the field is       *)
(* written in full or in shorthand, and any other key, the empty one       *)
(* included, ranks above every index and is sorted after the declared      *)
(* ones.                                                                   *)
C9_Keys ==
    PlanProperty(LAMBDA pl :
        /\ \A k \in 1..Len(pl.fields) :
              LET it  == pl.rec.c.items[pl.fields[k]]
                  key == KeyAt(pl.rec.c, pl.rec.inner, pl.fields[k])
              IN /\ it.kind = "RECORD_FIELD" =>
                       key = IF HasKind(it, {"NAME_REF"})
                                THEN FirstText(it, {"NAME_REF"}, pl.rec.inner)
                             ELSE IF HasKind(it, ExprKinds)
                                THEN FirstText(it, ExprKinds, pl.rec.inner)
                             ELSE ""
                 /\ it.kind \in {"BIND_PAT", "RECORD_FIELD_PAT"} =>
                       key = IF HasKind(it, {"NAME"})
                                THEN FirstText(it, {"NAME"}, pl.rec.inner) ELSE ""
                 /\ key \in Declared(pl.rec.c) =>
                       pl.rank[pl.fields[k]] = DeclIndex(pl.rec.c, key)
                 /\ key \notin Declared(pl.rec.c) =>
                       /\ pl.rank[pl.fields[k]] = usize_max_value
                       /\ pl.rank[pl.fields[k]] >= Len(pl.rec.c.path.res.fields)
        /\ \A i, j \in 1..Len(pl.sorted) :
              (/\ KeyAt(pl.rec.c, pl.rec.inner, pl.sorted[i]) = ""
               /\ KeyAt(pl.rec.c, pl.rec.inner, pl.sorted[j]) \in Declared(pl.rec.c))
              => j < i)

(* The literal `bar:foo, #[a], foo` against a declaration that starts with *)
(* foo, bar: the shorthand goes first and the keyless field last.          *)
C9_Witness ==
    /\ pc = "done" /\ result.some
    /\ LET pl == Plan(doc, "RECORD_LIT")
       IN /\ pl.ok /\ Len(pl.fields) = 3
          /\ pl.rec.c.items[pl.fields[1]] = LitBarOfFoo
          /\ pl.rec.c.items[pl.fields[2]] = LitNoKey
          /\ pl.rec.c.items[pl.fields[3]] = LitShorthandFoo
          /\ pl.rank[pl.fields[3]] = 0
          /\ pl.rank[pl.fields[1]] = 1
          /\ pl.sorted = <<pl.fields[3], pl.fields[1], pl.fields[2]>>

CursorInNested == HasNested(doc) /\ NestedStart(doc) <= cursor /\ cursor <= NestedEnd(doc)

(* C10: the pattern is attempted only after the literal attempt gave       *)
(* nothing; the outcome is the literal's edit whenever the literal has     *)
(* one; an edit changes one construct; and with the cursor in a pattern    *)
(* nested in an unsorted literal, the edit is the literal's and the        *)
(* pattern keeps its fields as they were.                                  *)
C10_AttemptOrder ==
    /\ pc = "tryPat" => ~litResult.some /\ litResult = reorder(doc, cursor, "RECORD_LIT")
    /\ pc = "done" =>
          /\ result = reorder_fields(doc, cursor)
          /\ reorder(doc, cursor, "RECORD_LIT").some =>
                result = litResult /\ result.kind = "RECORD_LIT"
          /\ (result.some /\ result.kind = "RECORD_PAT") =>
                ~reorder(doc, cursor, "RECORD_LIT").some
          /\ (CursorInNested /\ Applicable("RECORD_LIT")) =>
                /\ result.some
                /\ result.target = [start |-> TopStart, end |-> TopEnd(doc)]
    /\ Applied =>
          /\ Before.where = "top" => doc.pat = prev.pat
          /\ Before.where = "nested" => doc.top = prev.top

(* The cursor is in an unsorted pattern nested in a literal that was       *)
(* unsorted; the literal's edit was applied and the pattern is unchanged.  *)
C10_Witness ==
    /\ Applied /\ round = 1 /\ pc = "idle"
    /\ prevResult.kind = "RECORD_LIT"
    /\ CursorInNested
    /\ doc.pat = prev.pat
    /\ doc.top # prev.top
    /\ reorder(doc, cursor, "RECORD_PAT").some
    /\ NestedStart(prev) <= cursor /\ cursor <= NestedEnd(prev)

====
